---------------------------- MODULE Spec2Model ----------------------------
(***************************************************************************)
(* Byte-scanning kernels of Corrade's Containers::StringView               *)
(* (src/Corrade/Containers/StringView.cpp) and the CPU dispatch that       *)
(* selects between them.                                                   *)
(*                                                                         *)
(* A pointer is an address (a natural number), the null pointer is Null.   *)
(* A byte is a one-character string; only byte equality is ever used.      *)
(* A comparison mask (the result of movemask) is the set of its set bits.  *)
(***************************************************************************)
EXTENDS Integers, Sequences, FiniteSets, TLC

(***************************************************************************)
(* Program constants                                                       *)
(***************************************************************************)
Null == 0
Sse2Width == 16
Avx2Width == 32

(***************************************************************************)
(* Bounds of the model                                                     *)
(***************************************************************************)
\* longest buffer handed to the find-character kernels
MaxSize == 161
\* largest misalignment of the buffer's base address (modulo Avx2Width)
MaxAlign == 31
\* longest haystack, needle and character set handed to the scalar searches
MaxHaystack == 4
MaxSubstring == 2
MaxCharacters == 2
\* threads calling through the dispatcher, and calls each of them makes
MaxThreads == 2
MaxCalls == 2
\* feature tags the operands of the Features operators are combined from
MaxTags == 4
\* tokens the text given to parseNumberSequence is made of, and the
\* largest bound passed as min or max
MaxTokens == 5
MaxLimit == 7
\* strings handed to join(), and the longest delimiter joining them
MaxParts == 3
MaxDelimiter == 2

Bytes == {"a", "X", "Z"}
\* the bytes the short haystacks are made of
HaystackBytes == {"a", "X"}

\* base addresses: every alignment 0..MaxAlign past a 32-byte boundary
AddrBase == 2 * Avx2Width
DataAddrs == {AddrBase + a : a \in 0..MaxAlign}

VARIABLES
    data,       \* base pointer of the scanned buffer
    size,       \* its length
    haystack,   \* its bytes, haystack[k] at address data + k - 1
    op,         \* the search function called
    character,  \* the byte searched for
    substring,  \* the needle of a substring search
    characters, \* the byte set of an any / not-any search, as an array
    tier,       \* the kernel stringFindCharacter was called with
    kernel,     \* the kernel executing (Avx2 delegates short inputs to Sse2)
    pc,         \* "idle", "done", or the position in the executing kernel
    i,          \* the kernel's scan pointer
    loads,      \* vector loads issued so far: <<address, width, aligned>>
    assertOk,   \* FALSE once a debug assertion of the kernel failed
    found,      \* the pointer returned (Null: not found)
    reads,      \* addresses read byte by byte (or by memcmp) by the call
    compares,   \* memcmp() calls made by the call
    features,   \* the detected CPU feature set
    resolved,   \* the kernel the dispatcher resolved, "unset" before
    once,       \* state of the slot's one-time resolution
    probe,      \* the cached outcome of the feature detection
    probes,     \* feature detections performed
    scans,      \* resolutions (table scans) performed
    callers,    \* the threads calling stringFindCharacter
    lhs,        \* left operand of a Features operator, a 32-bit mask
    rhs,        \* right operand
    fop,        \* the Features operator applied, "none" before
    value,      \* the Features it returned (the operand after, for ~)
    assigned,   \* the left operand after the compound assignment
    truth,      \* the boolean it returned
    target,     \* the architecture the detection runs on
    hardware,   \* the tiers the hardware reports when queried
    compiled,   \* the tier the build targets (Default)
    overloads,  \* the tiers an overload set has an overload for
    tag,        \* the tier tag an overload set is called with
    selected,   \* the overload the call selected, "none" before
    string,     \* the text given to parseNumberSequence, as character codes
    minimum,    \* its lower bound, inclusive (min in the source)
    maximum,    \* its upper bound, exclusive (max in the source)
    index,      \* the loop index of parseNumberSequence (i in the source)
    out,        \* the values appended so far
    hasNumber,  \* whether we have a number already
    number,     \* value of that number
    overflow,   \* if we've overflown the 32 bits during parsing
    rangeStart, \* if not ~0u, we're in a range
    parsed,     \* "running", then "array" or "nothing" (empty Optional)
    parts,      \* the views split() returned / the strings given to join()
    delimiter,  \* the bytes of the view join() is called on
    joined      \* the String join() returned

bufVars == <<data, size, haystack>>
argVars == <<op, character, substring, characters>>
kernVars == <<tier, kernel, pc, i, loads, assertOk>>
outVars == <<found, reads, compares>>
dispVars == <<features, resolved>>
callVars == <<once, probe, probes, scans, callers>>
featVars == <<lhs, rhs, fop, value, assigned, truth>>
detVars == <<target, hardware, compiled>>
tagVars == <<overloads, tag, selected>>
parseVars == <<string, minimum, maximum, index, out, hasNumber, number,
               overflow, rangeStart, parsed>>
partVars == <<parts, delimiter, joined>>

vars == <<bufVars, argVars, kernVars, outVars, dispVars, callVars, featVars,
          detVars, tagVars, parseVars, partVars>>

\* parseNumberSequence is not running and nothing was split or joined
NoParse ==
    /\ string = <<>>
    /\ minimum = <<0, 0>>
    /\ maximum = <<0, 0>>
    /\ index = 0
    /\ out = <<>>
    /\ hasNumber = FALSE
    /\ number = <<0, 0>>
    /\ overflow = FALSE
    /\ rangeStart = <<0, 0>>
    /\ parsed = "none"
    /\ parts = <<>>
    /\ delimiter = <<>>
    /\ joined = <<>>

end == data + size

\* no thread has called stringFindCharacter through the dispatcher and no
\* Features operator was applied
NoCalls ==
    /\ once = "unset"
    /\ probe = {}
    /\ probes = 0
    /\ scans = 0
    /\ target = "x86"
    /\ hardware = {}
    /\ compiled = "Scalar"
    /\ overloads = {}
    /\ tag = "Scalar"
    /\ selected = "none"
    /\ callers = <<>>
    /\ lhs = <<0, 0>>
    /\ rhs = <<0, 0>>
    /\ fop = "none"
    /\ value = <<0, 0>>
    /\ assigned = <<0, 0>>
    /\ truth = FALSE

(***************************************************************************)
(* Memory                                                                  *)
(***************************************************************************)
InBuffer(addr) == data <= addr /\ addr < end

\* the byte at addr; a read outside the buffer yields the arbitrary byte ob
Mem(addr, ob) == IF InBuffer(addr) THEN haystack[addr - data + 1] ELSE ob

\* what the bytes outside the buffer may read as in a load of n bytes at
\* `at`: nothing is read outside when the load lies within the buffer
Outside(at, n) ==
    IF data <= at /\ at + n <= end THEN {"a"} ELSE Bytes

Min(S) == CHOOSE x \in S : \A y \in S : x <= y
Max(S) == CHOOSE x \in S : \A y \in S : x >= y

(***************************************************************************)
(* memchr(): pointer to the first of the n bytes at s equal to c, or Null  *)
(***************************************************************************)
Memchr(s, n, c) ==
    LET first == s - data + 1
        hits == {k \in 0..(n - 1) : haystack[first + k] = c}
    IN  IF hits = {} THEN Null ELSE s + Min(hits)

(***************************************************************************)
(* Vector primitives                                                       *)
(***************************************************************************)
Width(k) == IF k = "Avx2" THEN Avx2Width ELSE Sse2Width

\* _mm(256)_movemask_epi8(_mm(256)_cmpeq_epi8(chunk, vn1)) of the w bytes at
\* `at`: bit k is set iff byte k of the chunk equals the character
CompareMask(at, w, ob) ==
    IF data <= at /\ at + w <= end
    THEN LET first == at - data + 1
         IN  {k \in 0..(w - 1) : haystack[first + k] = character}
    ELSE {k \in 0..(w - 1) : Mem(at + k, ob) = character}

\* _tzcnt_u32(): index of the lowest set bit, 32 for an empty mask
\* faulty variant: the index of the highest set bit instead of the lowest
TzcntHighestBit(mask) == IF mask = {} THEN 32 ELSE Max(mask)

Tzcnt(mask) == IF mask = {} THEN 32 ELSE Min(mask)

\* findCharacterSingleVectorUnaligned() / findCharacterSingleVector()
FindCharacterSingleVector(at, w, ob) ==
    LET mask == CompareMask(at, w, ob)
    IN  IF mask # {} THEN at + Tzcnt(mask) ELSE Null

Load(at, w, aligned) == <<at, w, aligned>>

\* reinterpret_cast<uintptr_t>(p + w) & ~(w - 1)
\* faulty variant: rounds data instead of data + w, up to a multiple of w
AlignNextStays(p, w) == (p + w - 1) - ((p + w - 1) % w)

\* faulty variant: rounds data + w up instead of down to a multiple of w
AlignNextRoundsUp(p, w) == (p + 2 * w - 1) - ((p + 2 * w - 1) % w)

AlignNext(p, w) == (p + w) - ((p + w) % w)

(***************************************************************************)
(* stringFindCharacterImplementation(Scalar)                               *)
(***************************************************************************)
ScalarResult == Memchr(data, size, character)

ScalarKernel ==
    /\ pc = "entry"
    /\ kernel = "Scalar"
    /\ found' = ScalarResult
    /\ pc' = "done"
    /\ UNCHANGED <<tier, kernel, i, loads, assertOk, reads, compares>>
    /\ UNCHANGED <<bufVars, argVars, dispVars, callVars, featVars,
                 detVars, tagVars, parseVars, partVars>>

(***************************************************************************)
(* stringFindCharacterImplementation(Sse2|Bmi1) and (Avx2|Bmi1)            *)
(***************************************************************************)
\* faulty variant: only inputs shorter than half a vector count as short
LessThanVectorHalf(w) == size < w \div 2

\* "if we have less than 16 bytes" / "if we have less than 32 bytes"
LessThanVector(w) == size < w

\* Sse2: "if we have less than 16 bytes, do it the stupid way"
RECURSIVE ByteLoop(_)
ByteLoop(p) ==
    IF p = end THEN Null
    ELSE IF haystack[p - data + 1] = character THEN p
    ELSE ByteLoop(p + 1)

ShortScan ==
    /\ pc = "entry"
    /\ kernel = "Sse2"
    /\ LessThanVector(Sse2Width)
    /\ found' = ByteLoop(data)
    /\ reads' = {p \in data..(end - 1) : found' = Null \/ p <= found'}
    /\ pc' = "done"
    /\ UNCHANGED <<tier, kernel, i, loads, assertOk, compares>>
    /\ UNCHANGED <<bufVars, argVars, dispVars, callVars, featVars,
                 detVars, tagVars, parseVars, partVars>>

\* Avx2: "if we have less than 32 bytes, fall back to the SSE variant"
Avx2Delegate ==
    /\ pc = "entry"
    /\ kernel = "Avx2"
    /\ LessThanVector(Avx2Width)
    /\ kernel' = "Sse2"
    /\ UNCHANGED <<tier, pc, i, loads, assertOk>>
    /\ UNCHANGED <<bufVars, argVars, outVars, dispVars, callVars, featVars,
                 detVars, tagVars, parseVars, partVars>>

\* the unconditional unaligned load of the first vector, then the step to
\* the next aligned position
FirstVector ==
    /\ pc = "entry"
    /\ kernel \in {"Sse2", "Avx2"}
    /\ ~LessThanVector(Width(kernel))
    /\ \E ob \in Outside(data, Width(kernel)) :
        LET w == Width(kernel)
            f == FindCharacterSingleVector(data, w, ob)
            next == AlignNext(data, w)
        IN  /\ loads' = Append(loads, Load(data, w, FALSE))
            /\ IF f # Null
               THEN /\ found' = f
                    /\ pc' = "done"
                    /\ UNCHANGED <<i, assertOk>>
               ELSE /\ i' = next
                    /\ assertOk' = (assertOk /\ next >= data /\ next % w = 0)
                    /\ pc' = "four"
                    /\ UNCHANGED found
    /\ UNCHANGED <<tier, kernel, reads, compares>>
    /\ UNCHANGED <<bufVars, argVars, dispVars, callVars, featVars,
                 detVars, tagVars, parseVars, partVars>>

\* faulty variant: the masks are tested as signed integers (mask > 0), so a
\* mask with bit 31 set counts as empty
BlockResultSignedMask(at, w, eq) ==
    IF (eq[1] \cup eq[2]) \cup (eq[3] \cup eq[4]) # {}
    THEN IF eq[1] # {} /\ 31 \notin eq[1] THEN at + 0 * w + Tzcnt(eq[1])
         ELSE IF eq[2] # {} /\ 31 \notin eq[2] THEN at + 1 * w + Tzcnt(eq[2])
         ELSE IF eq[3] # {} /\ 31 \notin eq[3] THEN at + 2 * w + Tzcnt(eq[3])
         ELSE IF eq[4] # {} /\ 31 \notin eq[4] THEN at + 3 * w + Tzcnt(eq[4])
         ELSE Null
    ELSE Null

\* the position returned from a block of four vectors whose masks are
\* eq[1..4], or Null when all four are empty
BlockResult(at, w, eq) ==
    IF (eq[1] \cup eq[2]) \cup (eq[3] \cup eq[4]) # {}
    THEN IF eq[1] # {} THEN at + 0 * w + Tzcnt(eq[1])
         ELSE IF eq[2] # {} THEN at + 1 * w + Tzcnt(eq[2])
         ELSE IF eq[3] # {} THEN at + 2 * w + Tzcnt(eq[3])
         ELSE IF eq[4] # {} THEN at + 3 * w + Tzcnt(eq[4])
         ELSE Null
    ELSE Null

\* "go four vectors at a time with the aligned pointer"
FourVectorsGuard(w) == i + 4 * w < end

FourVectors ==
    /\ pc = "four"
    /\ FourVectorsGuard(Width(kernel))
    /\ \E ob \in Outside(i, 4 * Width(kernel)) :
        LET w == Width(kernel)
            eq == [k \in 1..4 |-> CompareMask(i + (k - 1) * w, w, ob)]
            any == (eq[1] \cup eq[2]) \cup (eq[3] \cup eq[4])
            f == BlockResult(i, w, eq)
        IN  /\ loads' = loads \o [k \in 1..4 |-> Load(i + (k - 1) * w, w, TRUE)]
            /\ IF any # {}
               THEN /\ found' = f
                    /\ pc' = "done"
                    \* CORRADE_INTERNAL_DEBUG_ASSERT_UNREACHABLE()
                    /\ assertOk' = (assertOk /\ f # Null)
                    /\ UNCHANGED i
               ELSE /\ i' = i + 4 * w
                    /\ UNCHANGED <<found, pc, assertOk>>
    /\ UNCHANGED <<tier, kernel, reads, compares>>
    /\ UNCHANGED <<bufVars, argVars, dispVars, callVars, featVars,
                 detVars, tagVars, parseVars, partVars>>

FourVectorsExit ==
    /\ pc = "four"
    /\ ~FourVectorsGuard(Width(kernel))
    /\ pc' = "single"
    /\ UNCHANGED <<tier, kernel, i, loads, assertOk>>
    /\ UNCHANGED <<bufVars, argVars, outVars, dispVars, callVars, featVars,
                 detVars, tagVars, parseVars, partVars>>

\* "handle remaining less than four vectors"
SingleVectorGuard(w) == i + w <= end

SingleVector ==
    /\ pc = "single"
    /\ SingleVectorGuard(Width(kernel))
    /\ \E ob \in Outside(i, Width(kernel)) :
        LET w == Width(kernel)
            f == FindCharacterSingleVector(i, w, ob)
        IN  /\ loads' = Append(loads, Load(i, w, TRUE))
            \* CORRADE_INTERNAL_DEBUG_ASSERT(at % w == 0)
            /\ assertOk' = (assertOk /\ i % w = 0)
            /\ IF f # Null
               THEN /\ found' = f
                    /\ pc' = "done"
                    /\ UNCHANGED i
               ELSE /\ i' = i + w
                    /\ UNCHANGED <<found, pc>>
    /\ UNCHANGED <<tier, kernel, reads, compares>>
    /\ UNCHANGED <<bufVars, argVars, dispVars, callVars, featVars,
                 detVars, tagVars, parseVars, partVars>>

\* the position of the final unaligned load
\* faulty variant: the final load starts at i instead of at end - w
TailStartAtI(w) == i

TailStartOneLater(w) == end - w + 1

TailStart(w) == end - w

\* "handle remaining less than a vector with an unaligned search"
TailVector ==
    /\ pc = "single"
    /\ ~SingleVectorGuard(Width(kernel))
    /\ IF i < end
       THEN \E ob \in Outside(TailStart(Width(kernel)), Width(kernel)) :
            LET w == Width(kernel)
                at == TailStart(w)
            IN  /\ assertOk' = (assertOk /\ i + w > end)
                /\ i' = at
                /\ loads' = Append(loads, Load(at, w, FALSE))
                /\ found' = FindCharacterSingleVector(at, w, ob)
       ELSE /\ found' = Null
            /\ UNCHANGED <<i, loads, assertOk>>
    /\ pc' = "done"
    /\ UNCHANGED <<tier, kernel, reads, compares>>
    /\ UNCHANGED <<bufVars, argVars, dispVars, callVars, featVars,
                 detVars, tagVars, parseVars, partVars>>

(***************************************************************************)
(* Inputs of the find-character kernels                                    *)
(***************************************************************************)
\* n bytes "a" with the byte "X" at the offsets in P
Fill(n, P) == [k \in 1..n |-> IF (k - 1) \in P THEN "X" ELSE "a"]

\* The offsets holding "X" in the buffers of length n that are scanned: none
\* or the last byte for every length; for the longest buffers every single
\* offset, every pair of offsets one byte or one 256-bit vector apart, and
\* every offset together with all the offsets after it.
MatchSets(n) ==
    {{}} \cup {{n - 1} : x \in {y \in {n} : y > 0}}
         \cup {{p} : p \in {q \in 0..(n - 1) : n = MaxSize}}
         \cup {{p, p + 1} : p \in {q \in 0..(n - 2) : n = MaxSize}}
         \cup {{p, p + Avx2Width} :
                    p \in {q \in 0..(n - 1 - Avx2Width) : n = MaxSize}}
         \cup {p..(n - 1) : p \in {q \in 0..(n - 1) : n = MaxSize}}

InitVec ==
    /\ NoParse
    /\ size \in 0..MaxSize
    /\ haystack \in {Fill(size, P) : P \in MatchSets(size)}
    /\ data \in DataAddrs \cup {a \in {Null} : size = 0}
    /\ tier \in {"Scalar", "Sse2", "Avx2"}
    /\ kernel = tier
    /\ op = "stringFindCharacter"
    /\ character = "X"
    /\ substring = <<>>
    /\ characters = <<>>
    /\ pc = "entry"
    /\ i = Null
    /\ loads = <<>>
    /\ assertOk = TRUE
    /\ found = Null
    /\ reads = {}
    /\ compares = 0
    /\ features = {}
    /\ resolved = "unset"
    /\ NoCalls

NextVec ==
    \/ ScalarKernel
    \/ ShortScan
    \/ Avx2Delegate
    \/ FirstVector
    \/ FourVectors
    \/ FourVectorsExit
    \/ SingleVector
    \/ TailVector

SpecFindCharacter == InitVec /\ [][NextVec]_vars


(***************************************************************************)
(* The scalar searches: stringFindString, stringFindLastString,            *)
(* stringFindLastCharacter, stringFindAny, stringFindLastAny,              *)
(* stringFindNotAny, stringFindLastNotAny.  Each yields the pointer it     *)
(* returns, the addresses it read and the memcmp() calls it made.          *)
(***************************************************************************)
Result(ptr, rd, cmp) == [ptr |-> ptr, reads |-> rd, compares |-> cmp]

\* memcmp(p, substring, substringSize) == 0
MemcmpEqual(p, sub, ob) ==
    \A k \in 1..Len(sub) : Mem(p + k - 1, ob) = sub[k]

MemcmpReads(p, sub) == p..(p + Len(sub) - 1)

\* the first position stringFindString tries, given the base pointer
\* faulty variant: the scan starts one byte late
FindStringFirstSkipsOne(p) == p + 1

FindStringFirst(p) == p

\* for(max = data + size - substringSize; data <= max; ++data)
RECURSIVE FindStringLoop(_, _, _, _, _, _)
FindStringLoop(p, max, sub, ob, rd, cmp) ==
    IF ~(p <= max) THEN Result(Null, rd, cmp)
    ELSE IF MemcmpEqual(p, sub, ob)
         THEN Result(p, rd \cup MemcmpReads(p, sub), cmp + 1)
         ELSE FindStringLoop(p + 1, max, sub, ob,
                             rd \cup MemcmpReads(p, sub), cmp + 1)

StringFindStringResult(sub, ob) ==
    IF Len(sub) <= size
    THEN IF size = 0 THEN Result(data, {}, 0)
         ELSE FindStringLoop(FindStringFirst(data), data + size - Len(sub),
                             sub, ob, {}, 0)
    ELSE Result(Null, {}, 0)

\* the first position stringFindLastString tries
\* faulty variant: the scan starts one byte early
FindLastStringFirstSkipsOne(sub) == data + size - Len(sub) - 1

FindLastStringFirst(sub) == data + size - Len(sub)

\* for(i = data + size - substringSize; i >= data; --i)
RECURSIVE FindLastStringLoop(_, _, _, _, _)
FindLastStringLoop(p, sub, ob, rd, cmp) ==
    IF ~(p >= data) THEN Result(Null, rd, cmp)
    ELSE IF MemcmpEqual(p, sub, ob)
         THEN Result(p, rd \cup MemcmpReads(p, sub), cmp + 1)
         ELSE FindLastStringLoop(p - 1, sub, ob,
                                 rd \cup MemcmpReads(p, sub), cmp + 1)

StringFindLastStringResult(sub, ob) ==
    IF Len(sub) <= size
    THEN IF size = 0 THEN Result(data, {}, 0)
         ELSE FindLastStringLoop(FindLastStringFirst(sub), sub, ob, {}, 0)
    ELSE Result(Null, {}, 0)

\* the first position stringFindLastCharacter looks at
\* faulty variant: the scan starts at the end, one past the last byte
FindLastCharacterFirstAtEnd == data + size

FindLastCharacterFirst == data + size - 1

\* for(i = data + size - 1; i >= data; --i) if(*i == character) return i
RECURSIVE FindLastCharacterLoop(_, _, _, _)
FindLastCharacterLoop(p, c, ob, rd) ==
    IF ~(p >= data) THEN Result(Null, rd, 0)
    ELSE IF Mem(p, ob) = c THEN Result(p, rd \cup {p}, 0)
    ELSE FindLastCharacterLoop(p - 1, c, ob, rd \cup {p})

StringFindLastCharacterResult(c, ob) ==
    IF data # Null
    THEN FindLastCharacterLoop(FindLastCharacterFirst, c, ob, {})
    ELSE Result(Null, {}, 0)

\* memchr(characters, c, characterCount) != nullptr
RECURSIVE MemchrCharacters(_, _, _)
MemchrCharacters(chars, c, k) ==
    IF k > Len(chars) THEN FALSE
    ELSE IF chars[k] = c THEN TRUE
    ELSE MemchrCharacters(chars, c, k + 1)

\* whether stringFindAny / stringFindLastAny stop at the byte c
\* faulty variant: the first character of the set is not looked at
AnyStopsSkipsFirst(chars, c) == MemchrCharacters(chars, c, 2)

\* faulty variant: the negation is missing
NotAnyStopsNotNegated(chars, c) == MemchrCharacters(chars, c, 1)

AnyStops(chars, c) == MemchrCharacters(chars, c, 1)

\* whether stringFindNotAny / stringFindLastNotAny stop at the byte c
NotAnyStops(chars, c) == ~MemchrCharacters(chars, c, 1)

Stops(not, chars, c) ==
    IF not THEN NotAnyStops(chars, c) ELSE AnyStops(chars, c)

\* for(i = data, end = data + size; i != end; ++i) if(stops(*i)) return i
\* (not: FALSE for the Any variant, TRUE for the NotAny variant)
RECURSIVE FindAnyLoop(_, _, _, _, _)
FindAnyLoop(p, not, chars, ob, rd) ==
    IF p = end THEN Result(Null, rd, 0)
    ELSE IF Stops(not, chars, Mem(p, ob)) THEN Result(p, rd \cup {p}, 0)
    ELSE FindAnyLoop(p + 1, not, chars, ob, rd \cup {p})

\* for(i = data + size; i != data; --i) if(stops(*(i - 1))) return i - 1
RECURSIVE FindLastAnyLoop(_, _, _, _, _)
FindLastAnyLoop(p, not, chars, ob, rd) ==
    IF p = data THEN Result(Null, rd, 0)
    ELSE IF Stops(not, chars, Mem(p - 1, ob))
         THEN Result(p - 1, rd \cup {p - 1}, 0)
         ELSE FindLastAnyLoop(p - 1, not, chars, ob, rd \cup {p - 1})

StringFindAnyResult(chars, ob) == FindAnyLoop(data, FALSE, chars, ob, {})

\* faulty variant: the scan starts one past the end
StringFindLastAnyResultPastEnd(chars, ob) ==
    FindLastAnyLoop(data + size + 1, FALSE, chars, ob, {})

StringFindLastAnyResult(chars, ob) ==
    FindLastAnyLoop(data + size, FALSE, chars, ob, {})

StringFindNotAnyResult(chars, ob) == FindAnyLoop(data, TRUE, chars, ob, {})

StringFindLastNotAnyResult(chars, ob) ==
    FindLastAnyLoop(data + size, TRUE, chars, ob, {})

(***************************************************************************)
(* Calls of the searches on short buffers.  One search is called on the    *)
(* buffer; it leaves its arguments and its result in the state.            *)
(***************************************************************************)
Ready == pc = "idle"

\* sequences over S of length at most n
RECURSIVE SeqsUpTo(_, _)
SeqsUpTo(S, n) ==
    IF n = 0 THEN {<<>>}
    ELSE LET shorter == SeqsUpTo(S, n - 1)
         IN  shorter \cup {Append(q, x) : q \in shorter, x \in S}

\* the call name(c, sub, chars) returns r; arguments the function does not
\* take are passed as "a", <<>>, <<>>
Returns(name, c, sub, chars, r) ==
    /\ op' = name
    /\ character' = c
    /\ substring' = sub
    /\ characters' = chars
    /\ found' = r.ptr
    /\ reads' = r.reads
    /\ compares' = r.compares
    /\ pc' = "done"
    /\ tier' = "Scalar"
    /\ kernel' = "Scalar"
    /\ i' = Null
    /\ loads' = <<>>
    /\ UNCHANGED <<bufVars, assertOk, dispVars, callVars, featVars,
                 detVars, tagVars, parseVars, partVars>>

StringFindString ==
    /\ Ready
    /\ \E sub \in SeqsUpTo(Bytes, MaxSubstring), ob \in Bytes :
        Returns("stringFindString", "a", sub, <<>>,
                StringFindStringResult(sub, ob))

StringFindLastString ==
    /\ Ready
    /\ \E sub \in SeqsUpTo(Bytes, MaxSubstring), ob \in Bytes :
        Returns("stringFindLastString", "a", sub, <<>>,
                StringFindLastStringResult(sub, ob))

StringFindLastCharacter ==
    /\ Ready
    /\ \E c \in Bytes, ob \in Bytes :
        Returns("stringFindLastCharacter", c, <<>>, <<>>,
                StringFindLastCharacterResult(c, ob))

StringFindAny ==
    /\ Ready
    /\ \E chars \in SeqsUpTo(Bytes, MaxCharacters), ob \in Bytes :
        Returns("stringFindAny", "a", <<>>, chars,
                StringFindAnyResult(chars, ob))

StringFindLastAny ==
    /\ Ready
    /\ \E chars \in SeqsUpTo(Bytes, MaxCharacters), ob \in Bytes :
        Returns("stringFindLastAny", "a", <<>>, chars,
                StringFindLastAnyResult(chars, ob))

StringFindNotAny ==
    /\ Ready
    /\ \E chars \in SeqsUpTo(Bytes, MaxCharacters), ob \in Bytes :
        Returns("stringFindNotAny", "a", <<>>, chars,
                StringFindNotAnyResult(chars, ob))

StringFindLastNotAny ==
    /\ Ready
    /\ \E chars \in SeqsUpTo(Bytes, MaxCharacters), ob \in Bytes :
        Returns("stringFindLastNotAny", "a", <<>>, chars,
                StringFindLastNotAnyResult(chars, ob))

\* a call of stringFindCharacter, with the kernel it is dispatched to
StringFindCharacter ==
    /\ Ready
    /\ \E c \in Bytes, t \in {"Scalar", "Sse2", "Avx2"} :
        /\ character' = c
        /\ tier' = t
        /\ kernel' = t
    /\ op' = "stringFindCharacter"
    /\ substring' = <<>>
    /\ characters' = <<>>
    /\ pc' = "entry"
    /\ i' = Null
    /\ loads' = <<>>
    /\ found' = Null
    /\ reads' = {}
    /\ compares' = 0
    /\ UNCHANGED <<bufVars, assertOk, dispVars, callVars, featVars,
                 detVars, tagVars, parseVars, partVars>>

InitScan ==
    /\ NoParse
    /\ haystack \in SeqsUpTo(HaystackBytes, MaxHaystack)
    /\ size = Len(haystack)
    /\ data \in {AddrBase} \cup {a \in {Null} : size = 0}
    /\ op = "none"
    /\ character = "a"
    /\ substring = <<>>
    /\ characters = <<>>
    /\ tier = "Scalar"
    /\ kernel = "Scalar"
    /\ pc = "idle"
    /\ i = Null
    /\ loads = <<>>
    /\ assertOk = TRUE
    /\ found = Null
    /\ reads = {}
    /\ compares = 0
    /\ features = {}
    /\ resolved = "unset"
    /\ NoCalls

NextScan ==
    \/ StringFindString
    \/ StringFindLastString
    \/ StringFindLastCharacter
    \/ StringFindAny
    \/ StringFindLastAny
    \/ StringFindNotAny
    \/ StringFindLastNotAny
    \/ StringFindCharacter
    \/ ScalarKernel
    \/ ShortScan
    \/ Avx2Delegate

SpecScan == InitScan /\ [][NextScan]_vars


(***************************************************************************)
(* Dispatch of stringFindCharacter.  The three implementations declare the *)
(* features they require; the dispatcher picks one for the detected        *)
(* features.  The dispatcher macros themselves are defined in Cpu.h: the   *)
(* table order and the scan are taken from the design's description.       *)
(***************************************************************************)
Caps == {"Sse2", "Sse3", "Ssse3", "Sse41", "Avx", "Avx2", "Bmi1"}

\* faulty variant: the 128-bit implementation declared without Bmi1
Sse2RequiredWithoutBmi1 == {"Sse2"}

\* CORRADE_CPU_DECLARE(...) of each stringFindCharacterImplementation()
Sse2Required == {"Sse2", "Bmi1"}
Avx2Required == {"Avx2", "Bmi1"}
ScalarRequired == {}

Entry(k, required) == [kernel |-> k, required |-> required]

\* most capable first, the scalar implementation last
ImplementationTable ==
    << Entry("Avx2", Avx2Required),
       Entry("Sse2", Sse2Required),
       Entry("Scalar", ScalarRequired) >>

\* faulty variant: the inclusion test is the wrong way round
RECURSIVE ResolveFromIncluded(_, _)
ResolveFromIncluded(detected, k) ==
    IF k > Len(ImplementationTable) THEN "none"
    ELSE IF detected \subseteq ImplementationTable[k].required
         THEN ImplementationTable[k].kernel
         ELSE ResolveFromIncluded(detected, k + 1)

\* the first entry from position k on whose requirements are all detected
RECURSIVE ResolveFrom(_, _)
ResolveFrom(detected, k) ==
    IF k > Len(ImplementationTable) THEN "none"
    ELSE IF ImplementationTable[k].required \subseteq detected
         THEN ImplementationTable[k].kernel
         ELSE ResolveFrom(detected, k + 1)

Resolve(detected) == ResolveFrom(detected, 1)

\* the first use of the slot resolves it for the detected features
ResolveSlot ==
    /\ resolved = "unset"
    /\ resolved' = Resolve(features)
    /\ UNCHANGED features
    /\ UNCHANGED <<bufVars, argVars, kernVars, outVars, callVars, featVars,
                 detVars, tagVars, parseVars, partVars>>

InitDispatch ==
    /\ NoParse
    /\ features \in SUBSET Caps
    /\ resolved = "unset"
    /\ NoCalls
    /\ data = Null
    /\ size = 0
    /\ haystack = <<>>
    /\ op = "none"
    /\ character = "a"
    /\ substring = <<>>
    /\ characters = <<>>
    /\ tier = "Scalar"
    /\ kernel = "Scalar"
    /\ pc = "idle"
    /\ i = Null
    /\ loads = <<>>
    /\ assertOk = TRUE
    /\ found = Null
    /\ reads = {}
    /\ compares = 0

NextDispatch == ResolveSlot

SpecDispatch == InitDispatch /\ [][NextDispatch]_vars

(***************************************************************************)
(* Calls of stringFindCharacter through the dispatcher, by several         *)
(* threads.  The slot is resolved lazily, once: the first caller detects   *)
(* the features and scans the table while callers arriving meanwhile wait; *)
(* later callers take the kernel the slot holds.  (Taken from the design's *)
(* description; the dispatcher macros are defined in Cpu.h.)               *)
(***************************************************************************)
Threads == 1..MaxThreads

Kernels == {ImplementationTable[k].kernel : k \in 1..Len(ImplementationTable)}

\* the features some implementation asks for
TableCaps ==
    UNION {ImplementationTable[k].required : k \in 1..Len(ImplementationTable)}

Caller(p, k, r, n, w) ==
    [pc |-> p, impl |-> k, ran |-> r, calls |-> n, waited |-> w]

\* where a caller goes that finds the slot in the given state
EnterTo(state) ==
    CASE state = "set" -> "invoke"
      [] state = "unset" -> "detect"
      [] OTHER -> "wait"

\* a call begins: the caller looks at the slot
Enter(t) ==
    /\ callers[t].pc = "idle"
    /\ callers[t].calls < MaxCalls
    /\ callers' = [callers EXCEPT
            ![t].pc = EnterTo(once),
            ![t].impl = IF once = "set" THEN resolved ELSE @,
            ![t].waited = @ \/ EnterTo(once) = "wait"]
    /\ once' = IF once = "unset" THEN "resolving" ELSE once
    /\ UNCHANGED <<probe, probes, scans>>
    /\ UNCHANGED <<bufVars, argVars, kernVars, outVars, dispVars, featVars,
                 detVars, tagVars, parseVars, partVars>>

\* the resolving caller detects the features; the outcome is cached
Detect(t) ==
    /\ callers[t].pc = "detect"
    /\ probe' = features
    /\ probes' = probes + 1
    /\ callers' = [callers EXCEPT ![t].pc = "scan"]
    /\ UNCHANGED <<once, scans>>
    /\ UNCHANGED <<bufVars, argVars, kernVars, outVars, dispVars, featVars,
                 detVars, tagVars, parseVars, partVars>>

\* faulty variant: the slot is not marked as resolved
OnceAfterScanUnset == "unset"

\* the state the resolution leaves the slot in
OnceAfterScan == "set"

\* the resolving caller scans the table and stores the kernel in the slot
Scan(t) ==
    /\ callers[t].pc = "scan"
    /\ resolved' = Resolve(probe)
    /\ scans' = scans + 1
    /\ once' = OnceAfterScan
    /\ callers' = [callers EXCEPT ![t].pc = "invoke", ![t].impl = resolved']
    /\ UNCHANGED <<features, probe, probes>>
    /\ UNCHANGED <<bufVars, argVars, kernVars, outVars, featVars,
                 detVars, tagVars, parseVars, partVars>>

\* faulty variant: a waiting caller proceeds while the slot is being resolved
CanWakeEarly == once # "unset"

CanWake == once = "set"

\* a caller that waited takes the kernel from the slot
Wake(t) ==
    /\ callers[t].pc = "wait"
    /\ CanWake
    /\ callers' = [callers EXCEPT ![t].pc = "invoke", ![t].impl = resolved]
    /\ UNCHANGED <<once, probe, probes, scans>>
    /\ UNCHANGED <<bufVars, argVars, kernVars, outVars, dispVars, featVars,
                 detVars, tagVars, parseVars, partVars>>

\* the call executes the kernel it got and returns
Invoke(t) ==
    /\ callers[t].pc = "invoke"
    /\ callers' = [callers EXCEPT
            ![t].pc = "idle",
            ![t].ran = callers[t].impl,
            ![t].calls = @ + 1]
    /\ UNCHANGED <<once, probe, probes, scans>>
    /\ UNCHANGED <<bufVars, argVars, kernVars, outVars, dispVars, featVars,
                 detVars, tagVars, parseVars, partVars>>

InitCalls ==
    /\ NoParse
    /\ features \in SUBSET TableCaps
    /\ resolved = "unset"
    /\ once = "unset"
    /\ probe = {}
    /\ probes = 0
    /\ scans = 0
    /\ target = "x86"
    /\ hardware = {}
    /\ compiled = "Scalar"
    /\ overloads = {}
    /\ tag = "Scalar"
    /\ selected = "none"
    /\ callers = [t \in Threads |-> Caller("idle", "unset", "none", 0, FALSE)]
    /\ lhs = <<0, 0>>
    /\ rhs = <<0, 0>>
    /\ fop = "none"
    /\ value = <<0, 0>>
    /\ assigned = <<0, 0>>
    /\ truth = FALSE
    /\ data = Null
    /\ size = 0
    /\ haystack = <<>>
    /\ op = "none"
    /\ character = "a"
    /\ substring = <<>>
    /\ characters = <<>>
    /\ tier = "Scalar"
    /\ kernel = "Scalar"
    /\ pc = "idle"
    /\ i = Null
    /\ loads = <<>>
    /\ assertOk = TRUE
    /\ found = Null
    /\ reads = {}
    /\ compares = 0

NextCalls ==
    \E t \in Threads :
        \/ Enter(t)
        \/ Detect(t)
        \/ Scan(t)
        \/ Wake(t)
        \/ Invoke(t)

SpecCalls == InitCalls /\ [][NextCalls]_vars

(***************************************************************************)
(* Features: a set of feature tags kept as a 32-bit mask.  The mask is     *)
(* held as its two 16-bit halves <<high, low>>.  The tag values and the    *)
(* expected results are those of SimdTest.cpp; the operators themselves    *)
(* are defined in Simd.h and are taken from the design's description.      *)
(***************************************************************************)
HalfBits == 16
\* 0xffff, a half of 0xffffffff
FullHalf == 65535

Mask(high, low) == <<high, low>>

\* faulty variant: the empty set given the first bit
ScalarAsFirstBit == Mask(0, 1)

Scalar == Mask(0, 0)
Sse2 == Mask(0, 1)
Sse3 == Mask(0, 2)
Ssse3 == Mask(0, 4)
Sse41 == Mask(0, 8)

\* the n-bit result of applying the bit operation to x and y bit by bit
RECURSIVE Bitwise(_, _, _, _)
Bitwise(kind, x, y, n) ==
    IF n = 0 THEN 0
    ELSE LET a == x % 2
             b == y % 2
             bit == CASE kind = "or" -> IF a + b > 0 THEN 1 ELSE 0
                      [] kind = "and" -> a * b
                      [] kind = "xor" -> (a + b) % 2
         IN  bit + 2 * Bitwise(kind, x \div 2, y \div 2, n - 1)

FeaturesOr(a, b) ==
    Mask(Bitwise("or", a[1], b[1], HalfBits),
         Bitwise("or", a[2], b[2], HalfBits))

FeaturesAnd(a, b) ==
    Mask(Bitwise("and", a[1], b[1], HalfBits),
         Bitwise("and", a[2], b[2], HalfBits))

FeaturesXor(a, b) ==
    Mask(Bitwise("xor", a[1], b[1], HalfBits),
         Bitwise("xor", a[2], b[2], HalfBits))

\* faulty variant: only the low half is inverted
FeaturesInverseLowHalf(a) == Mask(a[1], FullHalf - a[2])

FeaturesInverse(a) == Mask(FullHalf - a[1], FullHalf - a[2])

FeaturesBool(a) == a[1] # 0 \/ a[2] # 0

\* faulty variant: the masks are compared as numbers
FeaturesLessEqualNumeric(a, b) ==
    a[1] < b[1] \/ (a[1] = b[1] /\ a[2] <= b[2])

FeaturesLessEqual(a, b) == FeaturesAnd(a, b) = a

FeaturesGreaterEqual(a, b) == FeaturesAnd(a, b) = b

RECURSIVE Pow2(_)
Pow2(n) == IF n = 0 THEN 1 ELSE 2 * Pow2(n - 1)

\* the combinations of the first MaxTags tags, and their inverses
TagMasks == {Mask(0, x) : x \in 0..(Pow2(MaxTags) - 1)}
Operands == TagMasks \cup {FeaturesInverse(m) : m \in TagMasks}

Applied(name, v, c, b) ==
    /\ fop = "none"
    /\ fop' = name
    /\ value' = v
    /\ assigned' = c
    /\ truth' = b
    /\ UNCHANGED <<lhs, rhs>>
    /\ UNCHANGED <<bufVars, argVars, kernVars, outVars, dispVars, callVars,
                 detVars, tagVars, parseVars, partVars>>

\* lhs | rhs and lhs |= rhs
OperatorOr ==
    Applied("or", FeaturesOr(lhs, rhs), FeaturesOr(lhs, rhs), FALSE)

\* lhs & rhs and lhs &= rhs
OperatorAnd ==
    Applied("and", FeaturesAnd(lhs, rhs), FeaturesAnd(lhs, rhs), FALSE)

\* lhs ^ rhs and lhs ^= rhs
OperatorXor ==
    Applied("xor", FeaturesXor(lhs, rhs), FeaturesXor(lhs, rhs), FALSE)

\* ~lhs
OperatorInverse == Applied("inverse", FeaturesInverse(lhs), lhs, FALSE)

\* bool(lhs)
OperatorBool == Applied("bool", lhs, lhs, FeaturesBool(lhs))

\* lhs <= rhs
OperatorLessEqual ==
    Applied("le", lhs, lhs, FeaturesLessEqual(lhs, rhs))

\* lhs >= rhs
OperatorGreaterEqual ==
    Applied("ge", lhs, lhs, FeaturesGreaterEqual(lhs, rhs))

InitFeatures ==
    /\ NoParse
    /\ lhs \in Operands
    /\ rhs \in Operands
    /\ fop = "none"
    /\ value = Scalar
    /\ assigned = Scalar
    /\ truth = FALSE
    /\ features = {}
    /\ resolved = "unset"
    /\ once = "unset"
    /\ probe = {}
    /\ probes = 0
    /\ scans = 0
    /\ target = "x86"
    /\ hardware = {}
    /\ compiled = "Scalar"
    /\ overloads = {}
    /\ tag = "Scalar"
    /\ selected = "none"
    /\ callers = <<>>
    /\ data = Null
    /\ size = 0
    /\ haystack = <<>>
    /\ op = "none"
    /\ character = "a"
    /\ substring = <<>>
    /\ characters = <<>>
    /\ tier = "Scalar"
    /\ kernel = "Scalar"
    /\ pc = "idle"
    /\ i = Null
    /\ loads = <<>>
    /\ assertOk = TRUE
    /\ found = Null
    /\ reads = {}
    /\ compares = 0

NextFeatures ==
    \/ OperatorOr
    \/ OperatorAnd
    \/ OperatorXor
    \/ OperatorInverse
    \/ OperatorBool
    \/ OperatorLessEqual
    \/ OperatorGreaterEqual

SpecFeatures == InitFeatures /\ [][NextFeatures]_vars

(***************************************************************************)
(* Runtime detection of the features.  The tiers of an architecture form a *)
(* chain, each depending on the ones before it (SimdTest::detectRuntime).  *)
(* The detector itself is defined in Simd.h; following the design it       *)
(* reports a tier only when the hardware reports it and every tier it      *)
(* depends on.  The build's tier (Default) is one the hardware runs.       *)
(***************************************************************************)
\* nothing is being searched: the variables of the searches at rest
NoSearch ==
    /\ data = Null
    /\ size = 0
    /\ haystack = <<>>
    /\ op = "none"
    /\ character = "a"
    /\ substring = <<>>
    /\ characters = <<>>
    /\ tier = "Scalar"
    /\ kernel = "Scalar"
    /\ pc = "idle"
    /\ i = Null
    /\ loads = <<>>
    /\ assertOk = TRUE
    /\ found = Null
    /\ reads = {}
    /\ compares = 0

\* the tiers from the least to the most capable
TierChain(arch) ==
    IF arch = "x86"
    THEN << "Sse2", "Sse3", "Ssse3", "Sse41", "Sse42", "Avx", "AvxF16c",
            "AvxFma", "Avx2", "Avx512f" >>
    ELSE << "Neon", "NeonFp16", "NeonFma" >>

Tiers(arch) == {TierChain(arch)[k] : k \in 1..Len(TierChain(arch))}

\* position of a tier in the chain, 0 for Scalar
TierIndex(arch, t) ==
    IF t = "Scalar" THEN 0
    ELSE CHOOSE k \in 1..Len(TierChain(arch)) : TierChain(arch)[k] = t

\* the tiers at or below position k
UpTo(arch, k) == {TierChain(arch)[j] : j \in 1..k}

\* faulty variant: whatever the hardware reports is passed on
RuntimeFeaturesUnchecked(arch, hw) == hw

\* the tiers reported together with every tier they depend on
RuntimeFeatures(arch, hw) ==
    {t \in Tiers(arch) : UpTo(arch, TierIndex(arch, t)) \subseteq hw}

\* Simd::Features features; (the default constructor detects at runtime)
DetectRuntime ==
    /\ probes = 0
    /\ probes' = 1
    /\ features' = RuntimeFeatures(target, hardware)
    /\ UNCHANGED <<resolved, once, probe, scans, callers>>
    /\ UNCHANGED <<bufVars, argVars, kernVars, outVars, featVars, detVars,
                   tagVars, parseVars, partVars>>

InitDetect ==
    /\ NoParse
    /\ target \in {"x86", "arm"}
    /\ hardware \in SUBSET Tiers(target)
    /\ compiled \in {"Scalar"} \cup
            {t \in Tiers(target) :
                UpTo(target, TierIndex(target, t)) \subseteq hardware}
    /\ features = {}
    /\ resolved = "unset"
    /\ once = "unset"
    /\ probe = {}
    /\ probes = 0
    /\ scans = 0
    /\ callers = <<>>
    /\ lhs = Scalar
    /\ rhs = Scalar
    /\ fop = "none"
    /\ value = Scalar
    /\ assigned = Scalar
    /\ truth = FALSE
    /\ overloads = {}
    /\ tag = "Scalar"
    /\ selected = "none"
    /\ NoSearch

NextDetect == DetectRuntime

SpecDetect == InitDetect /\ [][NextDetect]_vars

(***************************************************************************)
(* Tag dispatch: an overload set is called with a tier tag.  The tag types *)
(* (defined in Simd.h) derive from each other along the tier chain, so the *)
(* call selects the overload of the nearest tier at or below the tag.      *)
(***************************************************************************)
\* faulty variant: the search starts at the most capable tier, not at the tag
SelectFromTop(arch, ovl, k) ==
    LET present == {j \in 1..Len(TierChain(arch)) : TierChain(arch)[j] \in ovl}
    IN  IF present = {} THEN "Scalar" ELSE TierChain(arch)[Max(present)]

\* the overload of the nearest tier at or below position k of the chain
RECURSIVE SelectFrom(_, _, _)
SelectFrom(arch, ovl, k) ==
    IF k = 0 THEN "Scalar"
    ELSE IF TierChain(arch)[k] \in ovl THEN TierChain(arch)[k]
    ELSE SelectFrom(arch, ovl, k - 1)

\* foo(Simd::Sse42), bar(Simd::Sse42)
TagDispatch ==
    /\ selected = "none"
    /\ selected' = SelectFrom(target, overloads, TierIndex(target, tag))
    /\ UNCHANGED <<overloads, tag>>
    /\ UNCHANGED <<bufVars, argVars, kernVars, outVars, dispVars, callVars,
                   featVars, detVars, parseVars, partVars>>

InitTagDispatch ==
    /\ NoParse
    /\ target = "x86"
    /\ overloads \in {S \cup {"Scalar"} : S \in SUBSET Tiers(target)}
    /\ tag \in Tiers(target) \cup {"Scalar"}
    /\ selected = "none"
    /\ hardware = {}
    /\ compiled = "Scalar"
    /\ features = {}
    /\ resolved = "unset"
    /\ once = "unset"
    /\ probe = {}
    /\ probes = 0
    /\ scans = 0
    /\ callers = <<>>
    /\ lhs = Scalar
    /\ rhs = Scalar
    /\ fop = "none"
    /\ value = Scalar
    /\ assigned = Scalar
    /\ truth = FALSE
    /\ NoSearch

NextTagDispatch == TagDispatch

SpecTagDispatch == InitTagDispatch /\ [][NextTagDispatch]_vars

(***************************************************************************)
(* Utility::String::parseNumberSequence(string, min, max)                  *)
(*                                                                         *)
(* Characters are their codes.  A std::uint32_t is the pair <<high, low>>  *)
(* of its 16-bit halves, so that values up to 2^32 - 1 and the overflow of *)
(* the 32 bits are exact; values appended to the output are below max and  *)
(* held as numbers.                                                        *)
(***************************************************************************)
Half == 65536

UInt32(n) == <<n \div Half, n % Half>>

\* the number a std::uint32_t below 2^31 stands for
Value(x) == x[1] * Half + x[2]

\* x < y on std::uint32_t
Less(x, y) == x[1] < y[1] \/ (x[1] = y[1] /\ x[2] < y[2])

\* x + 1 on std::uint32_t
PlusOne(x) ==
    IF x[2] = Half - 1 THEN <<(x[1] + 1) % Half, 0>> ELSE <<x[1], x[2] + 1>>

\* ~std::uint32_t{}
NoRange == <<Half - 1, Half - 1>>

\* std::uint64_t{number}*10 + (c - '0') as <<bits above 32, high, low>>
Next(n, c) ==
    LET low == n[2] * 10 + (c - 48)
        high == n[1] * 10 + low \div Half
    IN  <<high \div Half, high % Half, low % Half>>

\* ',' ';' ' ' '\t' '\f' '\v' '\r' '\n'
Delimiters == {44, 59, 32, 9, 12, 11, 13, 10}

\* faulty variant: the character before '0' counts as a digit
IsDigitFromSlash(c) == c >= 47 /\ c <= 57

\* c >= '0' && c <= '9'
IsDigit(c) == c >= 48 /\ c <= 57

\* the local variables of the function
Locals ==
    [out |-> out, hasNumber |-> hasNumber, number |-> number,
     overflow |-> overflow, rangeStart |-> rangeStart]

\* the locals at the start of the function
Fresh ==
    [out |-> <<>>, hasNumber |-> FALSE, number |-> UInt32(0),
     overflow |-> FALSE, rangeStart |-> NoRange]

\* "End of string or a delimiter"
EndOfPiece(st) ==
    LET \* "Clamp range end to the specified bounds as well"
        rangeEnd == IF st.hasNumber /\ Less(st.number, maximum)
                    THEN PlusOne(st.number)
                    ELSE maximum
        from == Value(st.rangeStart)
        filled ==
            IF st.overflow THEN st.out
            ELSE IF st.rangeStart # NoRange
            THEN IF Less(st.rangeStart, rangeEnd)
                 THEN st.out \o [k \in 1..(Value(rangeEnd) - from) |->
                                    from + k - 1]
                 ELSE st.out
            ELSE IF st.hasNumber /\ ~Less(st.number, minimum)
                                 /\ Less(st.number, maximum)
            THEN Append(st.out, Value(st.number))
            ELSE st.out
    IN  [out |-> filled, hasNumber |-> FALSE, number |-> UInt32(0),
         overflow |-> FALSE,
         rangeStart |-> IF st.overflow THEN st.rangeStart ELSE NoRange]

\* "Number"
Digit(st, c) ==
    LET next == Next(st.number, c)
    IN  [st EXCEPT !.hasNumber = TRUE,
                   !.overflow = st.overflow \/ next[1] > 0,
                   !.number = <<next[2], next[3]>>]

\* faulty variant: the number is the range start also when it is below min
RangeStartUnclamped(st) == IF st.hasNumber THEN st.number ELSE minimum

\* "remember it as a range start if it's in bounds. Otherwise use the min
\* value"
RangeStart(st) ==
    IF st.hasNumber /\ ~Less(st.number, minimum) THEN st.number ELSE minimum

\* "Range specification"
Range(st) ==
    [st EXCEPT !.rangeStart = RangeStart(st), !.hasNumber = FALSE,
               !.number = UInt32(0)]

\* const char c = i == string.size() ? 0 : string[i]
Character == IF index = Len(string) THEN 0 ELSE string[index + 1]

\* one iteration of for(std::size_t i = 0; i <= string.size(); ++i) that
\* leaves the locals as st
Iteration(st) ==
    /\ out' = st.out
    /\ hasNumber' = st.hasNumber
    /\ number' = st.number
    /\ overflow' = st.overflow
    /\ rangeStart' = st.rangeStart
    /\ index' = index + 1
    /\ UNCHANGED <<string, minimum, maximum, parsed>>
    /\ UNCHANGED <<bufVars, argVars, kernVars, outVars, dispVars, callVars,
                   featVars, detVars, tagVars, partVars>>

Delimiter ==
    /\ parsed = "running"
    /\ index <= Len(string)
    /\ index = Len(string) \/ Character \in Delimiters
    /\ Iteration(EndOfPiece(Locals))

Number ==
    /\ parsed = "running"
    /\ index < Len(string)
    /\ Character \notin Delimiters
    /\ IsDigit(Character)
    /\ Iteration(Digit(Locals, Character))

RangeSpecification ==
    /\ parsed = "running"
    /\ index < Len(string)
    /\ Character \notin Delimiters
    /\ ~IsDigit(Character)
    /\ Character = 45
    /\ Iteration(Range(Locals))

\* "Something weird, bail": return {}
Unrecognized ==
    /\ parsed = "running"
    /\ index < Len(string)
    /\ Character \notin Delimiters
    /\ ~IsDigit(Character)
    /\ Character # 45
    /\ parsed' = "nothing"
    /\ UNCHANGED <<string, minimum, maximum, index, out, hasNumber, number,
                   overflow, rangeStart>>
    /\ UNCHANGED <<bufVars, argVars, kernVars, outVars, dispVars, callVars,
                   featVars, detVars, tagVars, partVars>>

\* return Containers::optional(Utility::move(out))
ReturnOut ==
    /\ parsed = "running"
    /\ index > Len(string)
    /\ parsed' = "array"
    /\ UNCHANGED <<string, minimum, maximum, index, out, hasNumber, number,
                   overflow, rangeStart>>
    /\ UNCHANGED <<bufVars, argVars, kernVars, outVars, dispVars, callVars,
                   featVars, detVars, tagVars, partVars>>

\* the function as a whole: what it returns for str, from iteration k on
\* with the locals st
RECURSIVE Loop(_, _, _)
Loop(str, k, st) ==
    LET c == IF k = Len(str) THEN 0 ELSE str[k + 1]
    IN  IF k > Len(str) THEN [parsed |-> "array", out |-> st.out]
        ELSE IF k = Len(str) \/ c \in Delimiters
        THEN Loop(str, k + 1, EndOfPiece(st))
        ELSE IF IsDigit(c) THEN Loop(str, k + 1, Digit(st, c))
        ELSE IF c = 45 THEN Loop(str, k + 1, Range(st))
        ELSE [parsed |-> "nothing", out |-> <<>>]

\* the texts are up to MaxTokens of "2", "4294967295", "4294967296", "-",
\* "," and "x", and up to two of the delimiters, '-', the digits '0' and
\* '9', their neighbours '/' and ':', the zero byte, '.' and 'x'; the
\* bounds <<min, max>> are a range from zero, a window and min above max
InitParse ==
    LET tokens ==
            {<<50>>, <<52, 50, 57, 52, 57, 54, 55, 50, 57, 53>>,
             <<52, 50, 57, 52, 57, 54, 55, 50, 57, 54>>, <<45>>, <<44>>,
             <<120>>}
        RECURSIVE Flatten(_)
        Flatten(ts) ==
            IF ts = <<>> THEN <<>> ELSE Head(ts) \o Flatten(Tail(ts))
        limits ==
            {<<0, MaxLimit - 3>>, <<3, MaxLimit>>, <<MaxLimit - 1, 3>>}
    IN  /\ NoSearch
        /\ NoCalls
        /\ features = {}
        /\ resolved = "unset"
        /\ parts = <<>>
        /\ delimiter = <<>>
        /\ joined = <<>>
        /\ string \in {Flatten(ts) : ts \in SeqsUpTo(tokens, MaxTokens)}
                \cup SeqsUpTo(Delimiters
                                \cup {45, 48, 57, 47, 58, 0, 46, 120}, 2)
        /\ \E l \in limits :
            /\ minimum = UInt32(l[1])
            /\ maximum = UInt32(l[2])
        /\ index = 0
        /\ out = Fresh.out
        /\ hasNumber = Fresh.hasNumber
        /\ number = Fresh.number
        /\ overflow = Fresh.overflow
        /\ rangeStart = Fresh.rangeStart
        /\ parsed = "running"

NextParse ==
    \/ Delimiter
    \/ Number
    \/ RangeSpecification
    \/ Unrecognized
    \/ ReturnOut

SpecParse == InitParse /\ [][NextParse]_vars

(***************************************************************************)
(* BasicStringView::split(), splitWithoutEmptyParts(),                     *)
(* splitOnAnyWithoutEmptyParts(), join() and joinWithoutEmptyParts()       *)
(*                                                                         *)
(* A view is the pair <<pointer, size>>; the views split() returns and the *)
(* strings given to join() point into the buffer at data.                  *)
(***************************************************************************)
\* the bytes a view holds
Content(view) ==
    [k \in 1..view[2] |-> haystack[(view[1] - data) + k]]

\* faulty variant: the rest is appended only when bytes are left
SuffixAppendedIfLeft(oldpos) == oldpos < end

\* if(!isEmpty()) arrayAppend(parts, suffix(oldpos))
SuffixAppended(oldpos) == ~(size = 0)

Split ==
    /\ pc = "idle"
    /\ op = "none"
    /\ \E c \in HaystackBytes :
        LET RECURSIVE While(_, _)
            While(oldpos, ps) ==
                LET pos == IF oldpos < end
                           THEN Memchr(oldpos, end - oldpos, c)
                           ELSE Null
                IN  IF oldpos < end /\ pos # Null
                    THEN While(pos + 1, Append(ps, <<oldpos, pos - oldpos>>))
                    ELSE IF SuffixAppended(oldpos)
                    THEN Append(ps, <<oldpos, end - oldpos>>)
                    ELSE ps
        IN  /\ character' = c
            /\ parts' = While(data, <<>>)
    /\ op' = "split"
    /\ UNCHANGED <<substring, characters, delimiter, joined>>
    /\ UNCHANGED <<bufVars, kernVars, outVars, dispVars, callVars, featVars,
                   detVars, tagVars, parseVars>>

\* faulty variant: the part is appended also when it is empty
PartBetweenAlways(ps, oldpos, pos) == Append(ps, <<oldpos, pos - oldpos>>)

\* if(pos != oldpos) arrayAppend(parts, slice(oldpos, pos))
PartBetween(ps, oldpos, pos) ==
    IF pos # oldpos THEN Append(ps, <<oldpos, pos - oldpos>>) ELSE ps

SplitWithoutEmptyParts ==
    /\ pc = "idle"
    /\ op = "none"
    /\ \E c \in HaystackBytes :
        LET RECURSIVE While(_, _)
            While(oldpos, ps) ==
                IF ~(oldpos < end) THEN ps
                ELSE LET found1 == Memchr(oldpos, end - oldpos, c)
                         pos == IF found1 = Null THEN end ELSE found1
                     IN  While(pos + 1, PartBetween(ps, oldpos, pos))
        IN  /\ character' = c
            /\ parts' = While(data, <<>>)
    /\ op' = "splitWithoutEmptyParts"
    /\ UNCHANGED <<substring, characters, delimiter, joined>>
    /\ UNCHANGED <<bufVars, kernVars, outVars, dispVars, callVars, featVars,
                   detVars, tagVars, parseVars>>

SplitOnAnyWithoutEmptyParts ==
    /\ pc = "idle"
    /\ op = "none"
    /\ \E delimiters \in SeqsUpTo(HaystackBytes, MaxCharacters) :
        LET RECURSIVE While(_, _)
            While(oldpos, ps) ==
                IF ~(oldpos < end) THEN ps
                ELSE LET pos == FindAnyLoop(oldpos, FALSE, delimiters,
                                            "a", {}).ptr
                     IN  IF pos # Null
                         THEN While(pos + 1, PartBetween(ps, oldpos, pos))
                         ELSE Append(ps, <<oldpos, end - oldpos>>)
        IN  /\ characters' = delimiters
            /\ parts' = While(data, <<>>)
    /\ op' = "splitOnAnyWithoutEmptyParts"
    /\ UNCHANGED <<character, substring, delimiter, joined>>
    /\ UNCHANGED <<bufVars, kernVars, outVars, dispVars, callVars, featVars,
                   detVars, tagVars, parseVars>>

\* faulty variant: the delimiter is copied after the last string as well
DelimiterFollowsAlways(d, written, totalSize) == Len(d) # 0

\* if(delimiterSize && out != end)
DelimiterFollows(d, written, totalSize) == Len(d) # 0 /\ written # totalSize

\* for(const StringView& string: strings), from the k-th string on with
\* the bytes `result` written so far; withoutEmpty: "if(string.isEmpty())
\* continue"
RECURSIVE CopyLoop(_, _, _, _, _)
CopyLoop(k, result, d, totalSize, withoutEmpty) ==
    IF k > Len(parts) THEN result
    ELSE IF withoutEmpty /\ parts[k][2] = 0
    THEN CopyLoop(k + 1, result, d, totalSize, withoutEmpty)
    ELSE LET copied == IF parts[k][2] # 0 THEN result \o Content(parts[k])
                       ELSE result
         IN  CopyLoop(k + 1,
                      IF DelimiterFollows(d, Len(copied), totalSize)
                      THEN copied \o d ELSE copied,
                      d, totalSize, withoutEmpty)

Join ==
    /\ pc = "idle"
    /\ \E d \in SeqsUpTo(HaystackBytes, MaxDelimiter) :
        LET RECURSIVE Sizes(_)
            Sizes(k) == IF k = 0 THEN 0 ELSE Sizes(k - 1) + parts[k][2]
            totalSize ==
                (IF parts = <<>> THEN 0 ELSE (Len(parts) - 1) * Len(d))
                    + Sizes(Len(parts))
            result == CopyLoop(1, <<>>, d, totalSize, FALSE)
        IN  /\ delimiter' = d
            /\ joined' = result
            \* CORRADE_INTERNAL_ASSERT(out == end)
            /\ assertOk' = (assertOk /\ Len(result) = totalSize)
    /\ pc' = "join"
    /\ UNCHANGED <<tier, kernel, i, loads, parts>>
    /\ UNCHANGED <<bufVars, argVars, outVars, dispVars, callVars, featVars,
                   detVars, tagVars, parseVars>>

JoinWithoutEmptyParts ==
    /\ pc = "idle"
    /\ \E d \in SeqsUpTo(HaystackBytes, MaxDelimiter) :
        LET RECURSIVE Sizes(_)
            Sizes(k) ==
                IF k = 0 THEN 0
                ELSE IF parts[k][2] = 0 THEN Sizes(k - 1)
                ELSE Sizes(k - 1) + parts[k][2] + Len(d)
            sum == Sizes(Len(parts))
            totalSize == IF sum # 0 THEN sum - Len(d) ELSE sum
            result == CopyLoop(1, <<>>, d, totalSize, TRUE)
        IN  /\ delimiter' = d
            /\ joined' = result
            \* CORRADE_INTERNAL_ASSERT(out == end)
            /\ assertOk' = (assertOk /\ Len(result) = totalSize)
    /\ pc' = "joinWithoutEmptyParts"
    /\ UNCHANGED <<tier, kernel, i, loads, parts>>
    /\ UNCHANGED <<bufVars, argVars, outVars, dispVars, callVars, featVars,
                   detVars, tagVars, parseVars>>

\* the view split is called on holds up to MaxHaystack bytes; the strings
\* given to join() without a split before are up to MaxParts views, empty
\* ones among them, into a buffer of up to two bytes
InitParts ==
    /\ haystack \in SeqsUpTo(HaystackBytes, MaxHaystack)
    /\ size = Len(haystack)
    /\ data \in {AddrBase} \cup {a \in {Null} : size = 0}
    /\ parts \in IF size <= 2
                 THEN SeqsUpTo({<<p, n>> : p \in data..end, n \in 0..size}
                                   \cap {v \in Nat \X Nat : v[1] + v[2] <= end},
                               MaxParts)
                 ELSE {<<>>}
    /\ delimiter = <<>>
    /\ joined = <<>>
    /\ op = "none"
    /\ character = "a"
    /\ substring = <<>>
    /\ characters = <<>>
    /\ tier = "Scalar"
    /\ kernel = "Scalar"
    /\ pc = "idle"
    /\ i = Null
    /\ loads = <<>>
    /\ assertOk = TRUE
    /\ found = Null
    /\ reads = {}
    /\ compares = 0
    /\ features = {}
    /\ resolved = "unset"
    /\ NoCalls
    /\ string = <<>>
    /\ minimum = <<0, 0>>
    /\ maximum = <<0, 0>>
    /\ index = 0
    /\ out = <<>>
    /\ hasNumber = FALSE
    /\ number = <<0, 0>>
    /\ overflow = FALSE
    /\ rangeStart = <<0, 0>>
    /\ parsed = "none"

NextParts ==
    \/ Split
    \/ SplitWithoutEmptyParts
    \/ SplitOnAnyWithoutEmptyParts
    \/ Join
    \/ JoinWithoutEmptyParts

SpecParts == InitParts /\ [][NextParts]_vars

(***************************************************************************)
(* What the searches are to compute, stated over the buffer's bytes        *)
(***************************************************************************)
Offsets == 0..(size - 1)

\* offsets of the bytes equal to the character searched for
MatchOffsets == {k \in Offsets : haystack[k + 1] = character}

\* offsets at which the needle matches byte for byte
SubstringOffsets ==
    {p \in 0..(size - Len(substring)) :
        \A j \in 1..Len(substring) : haystack[p + j] = substring[j]}

\* offsets of the bytes that are members of the character set
AnyOffsets ==
    {k \in Offsets :
        \E j \in 1..Len(characters) : characters[j] = haystack[k + 1]}

NotAnyOffsets == Offsets \ AnyOffsets

\* the pointer to the first / last of the offsets in S, Null when S is empty
FirstOf(S) == IF S = {} THEN Null ELSE data + Min(S)
LastOf(S) == IF S = {} THEN Null ELSE data + Max(S)

Returned(name) == op = name /\ pc = "done"

VectorTiers == {"Sse2", "Avx2"}

\* the addresses a load covers
LoadRange(l) == l[1]..(l[1] + l[2] - 1)

(***************************************************************************)
(* C1: whichever kernel runs (scalar, SSE2 or AVX2), stringFindCharacter   *)
(* returns the pointer to the smallest offset holding the character, and   *)
(* returns not-found exactly when the character does not occur.            *)
(***************************************************************************)
C1_FindCharacterLeftmost ==
    Returned("stringFindCharacter") =>
        /\ found = FirstOf(MatchOffsets)
        /\ (found = Null) <=> (MatchOffsets = {})

\* the AVX2 kernel returned the first of several matches, past its first
\* four-vector block
C1_Witness ==
    /\ Returned("stringFindCharacter")
    /\ tier = "Avx2"
    /\ Cardinality(MatchOffsets) >= 2
    /\ found >= data + 4 * Avx2Width

(***************************************************************************)
(* C2: for every buffer, length and base alignment the SSE2 and the AVX2   *)
(* kernel return exactly what the scalar kernel returns.                   *)
(***************************************************************************)
C2_VectorEqualsScalar ==
    (Returned("stringFindCharacter") /\ tier \in VectorTiers) =>
        found = ScalarResult

\* an unaligned buffer of 4W + 1 bytes, W = 32, whose last byte matches
C2_Witness ==
    /\ Returned("stringFindCharacter")
    /\ tier = "Avx2"
    /\ size = 4 * Avx2Width + 1
    /\ data % Avx2Width # 0
    /\ found = data + size - 1

(***************************************************************************)
(* C3: every vector load the SSE2 and AVX2 kernels issue reads only        *)
(* addresses of the buffer, and when not-found is returned every byte of   *)
(* the buffer was read.                                                    *)
(***************************************************************************)
C3_LoadsInBounds ==
    /\ \A k \in 1..Len(loads) :
        data <= loads[k][1] /\ loads[k][1] + loads[k][2] <= end
    /\ (Returned("stringFindCharacter") /\ tier \in VectorTiers
            /\ found = Null) =>
        \A a \in data..(end - 1) :
            a \in reads \/ \E k \in 1..Len(loads) : a \in LoadRange(loads[k])

\* not-found after the first unaligned load, two four-vector blocks, an
\* aligned single vector and the final unaligned load of an unaligned buffer
C3_Witness ==
    /\ Returned("stringFindCharacter")
    /\ tier = "Sse2"
    /\ found = Null
    /\ data % Sse2Width # 0
    /\ Len(loads) >= 11
    /\ loads[1][3] = FALSE
    /\ loads[Len(loads)][3] = FALSE
    /\ loads[Len(loads) - 1][3] = TRUE

(***************************************************************************)
(* C4: stringFindString returns the pointer to the smallest and            *)
(* stringFindLastString to the largest offset p in [0, size - n] at which  *)
(* the needle of size n matches byte for byte, not-found when there is     *)
(* none; a needle longer than the haystack is not-found without any        *)
(* comparison.  ("Offset p" is the pointer data + p.)                      *)
(***************************************************************************)
C4_SubstringSearch ==
    /\ Returned("stringFindString") => found = FirstOf(SubstringOffsets)
    /\ Returned("stringFindLastString") => found = LastOf(SubstringOffsets)
    /\ (pc = "done" /\ op \in {"stringFindString", "stringFindLastString"}
            /\ Len(substring) > size) =>
        (found = Null /\ compares = 0 /\ reads = {})

\* the last of several matches of a non-empty needle
C4_Witness ==
    /\ Returned("stringFindLastString")
    /\ Len(substring) >= 1
    /\ Cardinality(SubstringOffsets) >= 2
    /\ found = data + Max(SubstringOffsets)

(***************************************************************************)
(* C5 as claimed: with an empty needle both stringFindString and           *)
(* stringFindLastString return offset 0, for every haystack.               *)
(***************************************************************************)
C5_EmptyNeedleAtZero ==
    (pc = "done" /\ op \in {"stringFindString", "stringFindLastString"}
        /\ substring = <<>>) => found = data

(***************************************************************************)
(* C5 as amended: with an empty needle stringFindString returns offset 0   *)
(* and stringFindLastString returns offset size, the end of the haystack   *)
(* (which is offset 0 only for an empty haystack).                         *)
(***************************************************************************)
C5_EmptyNeedle ==
    /\ (Returned("stringFindString") /\ substring = <<>>) => found = data
    /\ (Returned("stringFindLastString") /\ substring = <<>>) =>
        found = data + size

C5_Witness ==
    /\ Returned("stringFindLastString")
    /\ substring = <<>>
    /\ size > 0
    /\ found = end

(***************************************************************************)
(* C6 as claimed: on a zero-length buffer every byte, any-of-set and       *)
(* not-any-of-set search returns not-found, and a substring search with an *)
(* empty needle returns offset 0 as a result that differs from the         *)
(* not-found sentinel, also when the base pointer is null.                 *)
(***************************************************************************)
ByteAndSetSearches ==
    {"stringFindCharacter", "stringFindLastCharacter", "stringFindAny",
     "stringFindLastAny", "stringFindNotAny", "stringFindLastNotAny"}

SubstringSearches == {"stringFindString", "stringFindLastString"}

C6_ZeroLengthDistinguishable ==
    (pc = "done" /\ size = 0) =>
        /\ op \in ByteAndSetSearches => found = Null
        /\ (op \in SubstringSearches /\ substring = <<>>) =>
            (found = data /\ found # Null)

(***************************************************************************)
(* C6 as amended: on a zero-length buffer every byte, any-of-set and       *)
(* not-any-of-set search returns not-found; a substring search with an     *)
(* empty needle returns the base pointer: offset 0, different from the     *)
(* not-found sentinel, when the base pointer is not null, and the          *)
(* not-found sentinel itself when the base pointer is null.                *)
(***************************************************************************)
C6_ZeroLength ==
    (pc = "done" /\ size = 0) =>
        /\ op \in ByteAndSetSearches => found = Null
        /\ (op \in SubstringSearches /\ substring = <<>>) =>
            /\ found = data
            /\ (found # Null) <=> (data # Null)

C6_Witness ==
    /\ Returned("stringFindString")
    /\ size = 0
    /\ data = Null
    /\ substring = <<>>
    /\ found = Null

(***************************************************************************)
(* C7: stringFindLastCharacter returns the pointer to the largest offset   *)
(* holding the character, not-found when it does not occur, when the       *)
(* length is 0 or when the base is null, and reads only inside the buffer. *)
(***************************************************************************)
C7_FindLastCharacter ==
    Returned("stringFindLastCharacter") =>
        /\ found = LastOf(MatchOffsets)
        /\ (size = 0 \/ data = Null) => found = Null
        /\ \A a \in reads : InBuffer(a)

\* the last of several matches, with bytes after it that were read
C7_Witness ==
    /\ Returned("stringFindLastCharacter")
    /\ Cardinality(MatchOffsets) >= 2
    /\ found # Null
    /\ found < end - 1

(***************************************************************************)
(* C8: stringFindAny returns the pointer to the smallest and               *)
(* stringFindLastAny to the largest offset whose byte is in the set, and   *)
(* both return not-found when no byte of the buffer is in the set.         *)
(***************************************************************************)
C8_FindAny ==
    /\ Returned("stringFindAny") => found = FirstOf(AnyOffsets)
    /\ Returned("stringFindLastAny") => found = LastOf(AnyOffsets)
    /\ (pc = "done" /\ op \in {"stringFindAny", "stringFindLastAny"}
            /\ (characters = <<>> \/ size = 0)) => found = Null

\* a two-byte set, a buffer holding members and a non-member after the
\* last member
C8_Witness ==
    /\ Returned("stringFindLastAny")
    /\ Len(characters) = 2
    /\ characters[1] # characters[2]
    /\ Cardinality(AnyOffsets) >= 2
    /\ found # Null
    /\ found < end - 1

(***************************************************************************)
(* C9: stringFindNotAny / stringFindLastNotAny return the pointer to the   *)
(* smallest / largest offset whose byte is not in the set, not-found when  *)
(* every byte is in the set; with an empty set and a non-empty buffer they *)
(* return offset 0 and offset size - 1.                                    *)
(***************************************************************************)
C9_FindNotAny ==
    /\ Returned("stringFindNotAny") =>
        /\ found = FirstOf(NotAnyOffsets)
        /\ (characters = <<>> /\ size > 0) => found = data
    /\ Returned("stringFindLastNotAny") =>
        /\ found = LastOf(NotAnyOffsets)
        /\ (characters = <<>> /\ size > 0) => found = data + size - 1

\* a non-member found after skipping members of the set
C9_Witness ==
    /\ Returned("stringFindNotAny")
    /\ characters # <<>>
    /\ AnyOffsets # {}
    /\ found # Null
    /\ found > data


(***************************************************************************)
(* C10: for detected features D the find-character slot resolves to the    *)
(* first entry of [AVX2+BMI1, SSE2+BMI1, Scalar] whose requirements are a  *)
(* subset of D; some entry is always returned, and never one requiring a   *)
(* feature absent from D (without BMI1 the scalar entry is returned).      *)
(***************************************************************************)
C10_Resolution ==
    resolved # "unset" =>
        /\ resolved =
            IF {"Avx2", "Bmi1"} \subseteq features THEN "Avx2"
            ELSE IF {"Sse2", "Bmi1"} \subseteq features THEN "Sse2"
            ELSE "Scalar"
        /\ resolved \in {"Avx2", "Sse2", "Scalar"}
        /\ resolved = "Avx2" => {"Avx2", "Bmi1"} \subseteq features
        /\ resolved = "Sse2" => {"Sse2", "Bmi1"} \subseteq features
        /\ "Bmi1" \notin features => resolved = "Scalar"

\* both vector features detected, BMI1 not: resolved to scalar
C10_Witness ==
    /\ resolved = "Scalar"
    /\ {"Sse2", "Avx2"} \subseteq features
    /\ "Bmi1" \notin features


\* position of an implementation in the table, most capable first
Rank(k) ==
    CASE k = "Avx2" -> 1
      [] k = "Sse2" -> 2
      [] k = "Scalar" -> 3
      [] OTHER -> 4

C12_Memoized ==
    [][ /\ scans' <= 1
        /\ probes' <= 1
        /\ resolved # "unset" =>
            (resolved' = resolved /\ scans' = scans /\ probes' = probes)
        /\ \A t \in Threads :
            callers'[t].calls # callers[t].calls =>
                (callers'[t].ran = resolved' /\ resolved' \in Kernels)
      ]_vars

\* a thread made two calls, the second one on the resolved slot
C12_Witness ==
    /\ scans = 1
    /\ \E t \in Threads :
        /\ callers[t].calls >= 2
        /\ callers[t].ran = resolved
    /\ resolved = "Sse2"

(***************************************************************************)
(* C13: when several threads call stringFindCharacter before the slot is   *)
(* resolved, under every interleaving each call executes a resolved kernel *)
(* (never an unset entry), all threads execute the same kernel, and there  *)
(* is one feature detection whose outcome all of them use.                 *)
(***************************************************************************)
C13_ConcurrentFirstUse ==
    /\ \A t \in Threads :
        /\ callers[t].pc = "invoke" =>
            (callers[t].impl \in Kernels /\ callers[t].impl = resolved)
        /\ callers[t].ran # "none" => callers[t].ran \in Kernels
    /\ \A t1, t2 \in Threads :
        (callers[t1].ran # "none" /\ callers[t2].ran # "none") =>
            callers[t1].ran = callers[t2].ran
    /\ probes <= 1
    /\ probes = 1 => probe = features
    /\ resolved # "unset" => (probes = 1 /\ resolved = Resolve(probe))

\* a thread that arrived while another one was resolving has executed the
\* same kernel as that one
C13_Witness ==
    \E t1, t2 \in Threads :
        /\ t1 # t2
        /\ callers[t1].waited
        /\ ~callers[t2].waited
        /\ callers[t1].ran = "Avx2"
        /\ callers[t2].ran = "Avx2"


\* the capabilities in a mask: the positions of its set bits, 0..31
BitsOfHalf(x) == {k \in 0..(HalfBits - 1) : (x \div Pow2(k)) % 2 = 1}
Bits(m) == BitsOfHalf(m[2]) \cup {k + HalfBits : k \in BitsOfHalf(m[1])}
AllBits == 0..(2 * HalfBits - 1)

(***************************************************************************)
(* C14: a <= b holds exactly when every capability of a is in b, a >= b    *)
(* exactly when every capability of b is in a; both are reflexive, and for *)
(* two disjoint non-empty sets neither holds.                              *)
(***************************************************************************)
C14_CompareIsInclusion ==
    /\ fop = "le" => (truth <=> Bits(lhs) \subseteq Bits(rhs))
    /\ fop = "ge" => (truth <=> Bits(rhs) \subseteq Bits(lhs))
    /\ (fop \in {"le", "ge"} /\ lhs = rhs) => truth
    /\ (fop \in {"le", "ge"} /\ Bits(lhs) \cap Bits(rhs) = {}
            /\ Bits(lhs) # {} /\ Bits(rhs) # {}) => ~truth
    /\ (fop = "ge" /\ lhs = Mask(0, 11) /\ rhs = Mask(0, 15)) => ~truth

\* Sse3 <= Sse41 is false although 2 <= 8
C14_Witness ==
    /\ fop = "le"
    /\ lhs = Sse3
    /\ rhs = Sse41
    /\ ~truth

C16_ScalarIsEmpty ==
    /\ Scalar = Mask(0, 0)
    /\ Bits(Scalar) = ScalarRequired
    /\ fop = "bool" =>
        /\ truth <=> Bits(lhs) # {}
        /\ lhs = Scalar => ~truth
    /\ (fop = "le" /\ lhs = Scalar) => truth
    /\ (fop = "ge" /\ rhs = Scalar) => truth

\* Sse41 >= Scalar
C16_Witness ==
    /\ fop = "ge"
    /\ lhs = Sse41
    /\ rhs = Mask(0, 0)
    /\ truth


C18_TagDispatch ==
    selected # "none" =>
        /\ selected \in overloads
        /\ TierIndex(target, selected) <= TierIndex(target, tag)
        /\ \A o \in overloads :
            TierIndex(target, o) <= TierIndex(target, tag) =>
                TierIndex(target, o) <= TierIndex(target, selected)
        /\ (overloads = {"Scalar", "Sse3", "Avx2"} /\ tag = "Sse42") =>
            selected = "Sse3"
        /\ overloads = {"Scalar"} => selected = "Scalar"

\* foo(Simd::Sse42) of SimdTest::tagDispatch
C18_Witness ==
    /\ overloads = {"Scalar", "Sse3", "Avx2"}
    /\ tag = "Sse42"
    /\ selected = "Sse3"


(***************************************************************************)
(* C19: from the aligned position on the four-vectors-per-iteration step   *)
(* is taken as long as at least four full vectors remain before the end of *)
(* the buffer; the one-aligned-vector step is used only once fewer than    *)
(* four vectors remain.  (Stated for the state in which the kernel has     *)
(* left the four-vector loop: fewer than four full vectors remain then.)   *)
(***************************************************************************)
C19_BlocksWhileFourRemain ==
    (op = "stringFindCharacter" /\ pc = "single") =>
        i + 4 * Width(kernel) > end


(***************************************************************************)
(* C20: when the first unaligned load finds no match the scan position i   *)
(* becomes a multiple of the vector width W with data < i <= data + W (at  *)
(* most W - 1 bytes are scanned again, none is skipped); every aligned     *)
(* load is issued at a multiple of W, and the debug assertions hold for    *)
(* every base address and every length >= W.                               *)
(***************************************************************************)
C20_AlignmentStep ==
    op = "stringFindCharacter" =>
        /\ assertOk
        /\ \A k \in 1..Len(loads) :
            loads[k][3] => loads[k][1] % loads[k][2] = 0
        /\ (pc \in {"four", "single"} /\ Len(loads) = 1) =>
            /\ i % Width(kernel) = 0
            /\ data < i
            /\ i <= data + Width(kernel)

\* the AVX2 kernel right after the first load of a buffer one byte before
\* a 32-byte boundary: 31 bytes are scanned again
C20_Witness ==
    /\ op = "stringFindCharacter"
    /\ tier = "Avx2"
    /\ kernel = "Avx2"
    /\ pc = "four"
    /\ Len(loads) = 1
    /\ i = data + 1

(***************************************************************************)
(* C21: after the one-vector loop a final unaligned load is issued exactly *)
(* when 0 < end - i < W; it starts at end - W, which is not before the     *)
(* base, and ends exactly at the buffer end; the assertion i + W > end     *)
(* holds whenever it is reached; a match the load reports is the leftmost  *)
(* match of the whole buffer although the load overlaps bytes scanned      *)
(* before; when i = end no load is issued and not-found is returned.       *)
(***************************************************************************)
C21_TailStep ==
    [][(op = "stringFindCharacter" /\ pc = "single"
            /\ i + Width(kernel) > end) =>
        LET w == Width(kernel)
            issued == loads' # loads
        IN  /\ i <= end
            /\ issued <=> (0 < end - i /\ end - i < w)
            /\ issued =>
                /\ loads' = Append(loads, <<end - w, w, FALSE>>)
                /\ end - w >= data
                /\ (end - w) + w = end
                /\ assertOk'
                /\ found' # Null => found' = FirstOf(MatchOffsets)
            /\ i = end =>
                /\ loads' = loads
                /\ found' = Null
            /\ pc' = "done"]_vars

\* the tail load of the AVX2 kernel reports a match in the last byte
C21_Witness ==
    /\ Returned("stringFindCharacter")
    /\ kernel = "Avx2"
    /\ Len(loads) >= 2
    /\ loads[Len(loads)] = <<end - Avx2Width, Avx2Width, FALSE>>
    /\ found = end - 1

(***************************************************************************)
(* C22: in a four-vector block, whenever the OR of the four comparison     *)
(* results is non-empty at least one per-vector mask is non-empty (the     *)
(* assertion marked unreachable is never hit) and the position returned is *)
(* blockStart + k*W + (lowest set bit of mask k) for the smallest k in     *)
(* 0..3 whose mask is non-empty, also when the only match of the block is  *)
(* in the highest lane of a vector (bit 31 of a 256-bit mask).             *)
(***************************************************************************)
C22_BlockDecomposition ==
    [][(op = "stringFindCharacter" /\ pc = "four"
            /\ i + 4 * Width(kernel) < end) =>
        LET w == Width(kernel)
            lanes == [k \in 0..3 |->
                        {j \in 0..(w - 1) :
                            haystack[(i + k * w + j) - data + 1] = character}]
            hit == {k \in 0..3 : lanes[k] # {}}
        IN  hit # {} =>
                /\ assertOk'
                /\ pc' = "done"
                /\ found' = i + Min(hit) * w + Min(lanes[Min(hit)])]_vars

\* the AVX2 kernel returns from a block whose only match is in lane 31
C22_Witness ==
    /\ Returned("stringFindCharacter")
    /\ kernel = "Avx2"
    /\ Len(loads) = 5
    /\ loads[5][3]
    /\ Cardinality(MatchOffsets) = 1
    /\ found # Null
    /\ found % Avx2Width = Avx2Width - 1

(***************************************************************************)
(* C23: an input shorter than the vector width of the tier is handled      *)
(* without any vector load of that tier: the 128-bit kernel scans a length *)
(* below 16 byte by byte, issuing no load at all, and the 256-bit kernel   *)
(* given a length below 32 hands over to the 128-bit kernel, issues no     *)
(* 256-bit load and returns what the 128-bit kernel returns.               *)
(***************************************************************************)
C23_ShortInputs ==
    (op = "stringFindCharacter" /\ tier \in VectorTiers
            /\ size < Width(tier)) =>
        /\ \A k \in 1..Len(loads) : loads[k][2] # Width(tier)
        /\ size < Sse2Width =>
            /\ loads = <<>>
            /\ reads \subseteq data..(end - 1)
            /\ pc = "done" =>
                reads = {p \in data..(end - 1) :
                            \A q \in data..(p - 1) :
                                haystack[q - data + 1] # character}
        /\ (tier = "Avx2" /\ pc # "entry") =>
            /\ kernel = "Sse2"
            /\ \A k \in 1..Len(loads) : loads[k][2] = Sse2Width
        /\ pc = "done" => found = FirstOf(MatchOffsets)

\* the AVX2 kernel given 31 bytes returns a match found by the tail load of
\* the SSE2 kernel
C23_Witness ==
    /\ Returned("stringFindCharacter")
    /\ tier = "Avx2"
    /\ size = Avx2Width - 1
    /\ Len(loads) = 2
    /\ found = end - 1

(***************************************************************************)
(* What parseNumberSequence is to compute                                  *)
(***************************************************************************)
\* whether a number of the piece of str starting at k, read from the
\* value n on, overflows 32 bits
RECURSIVE PieceOverflows(_, _, _)
PieceOverflows(str, k, n) ==
    IF k > Len(str) \/ str[k] \in Delimiters THEN FALSE
    ELSE IF IsDigit(str[k])
    THEN LET next == Next(n, str[k])
         IN  next[1] > 0 \/ PieceOverflows(str, k + 1, <<next[2], next[3]>>)
    ELSE PieceOverflows(str, k + 1, UInt32(0))

\* first position of the piece of str that position k lies in
PieceStart(str, k) ==
    Min({j \in 1..k : \A m \in j..k : str[m] \notin Delimiters})

\* positions of str in pieces with an overflowing number
Overflowed(str) ==
    {k \in 1..Len(str) :
        /\ str[k] \notin Delimiters
        /\ PieceOverflows(str, PieceStart(str, k), UInt32(0))}

\* the characters of str at the positions in K, in order
Keep(str, K) ==
    [j \in 1..Cardinality(K) |->
        str[CHOOSE k \in K : Cardinality({m \in K : m <= k}) = j]]

\* str with the pieces holding an overflowing number removed
WithoutOverflowed(str) == Keep(str, (1..Len(str)) \ Overflowed(str))

\* the value of a string of digits that does not overflow
RECURSIVE NumberOf(_, _)
NumberOf(digits, n) ==
    IF digits = <<>> THEN n
    ELSE LET next == Next(n, Head(digits))
         IN  NumberOf(Tail(digits), <<next[2], next[3]>>)

(***************************************************************************)
(* C24: a piece in which any number overflows 32 bits is ignored           *)
(* completely: the array returned is the one returned for the text with    *)
(* the piece removed, so the piece adds no values and leaves no state      *)
(* (range start, number) that affects later pieces.                        *)
(***************************************************************************)
C24_OverflowedPieceIgnored ==
    parsed = "array" =>
        out = Loop(WithoutOverflowed(string), 0, Fresh).out

\* the text is one piece: digits with at most one '-', no number overflows
SinglePiece ==
    /\ string # <<>>
    /\ \A k \in 1..Len(string) : IsDigit(string[k]) \/ string[k] = 45
    /\ Cardinality({k \in 1..Len(string) : string[k] = 45}) <= 1
    /\ ~PieceOverflows(string, 1, UInt32(0))

\* the integers v with lower <= v < upper in increasing order
Between(lower, upper) ==
    IF Less(lower, upper)
    THEN [k \in 1..(Value(upper) - Value(lower)) |-> Value(lower) + k - 1]
    ELSE <<>>

\* what the piece 'a-b', 'a-', '-b', '-' or 'n' is to append
Expected ==
    LET dash == {k \in 1..Len(string) : string[k] = 45}
        d == Min(dash)
        a == IF d = 1 THEN minimum
             ELSE NumberOf(SubSeq(string, 1, d - 1), UInt32(0))
        b == NumberOf(SubSeq(string, d + 1, Len(string)), UInt32(0))
        n == NumberOf(string, UInt32(0))
    IN  IF dash = {}
        THEN IF ~Less(n, minimum) /\ Less(n, maximum) THEN <<Value(n)>>
             ELSE <<>>
        ELSE Between(IF Less(a, minimum) THEN minimum ELSE a,
                     IF d < Len(string) /\ Less(b, maximum) THEN PlusOne(b)
                     ELSE maximum)

(***************************************************************************)
(* C25: for a piece 'a-b' whose numbers fit 32 bits exactly the integers v *)
(* with max(a, min) <= v < min(b + 1, max) are appended in increasing      *)
(* order (nothing when that interval is empty, for example a > b); a       *)
(* missing a stands for min and a missing b for max; a single number n is  *)
(* appended if and only if min <= n < max; this for every a and b in       *)
(* [0, 2^32 - 1].                                                          *)
(***************************************************************************)
C25_RangeSemantics ==
    (parsed = "array" /\ SinglePiece) => out = Expected

\* decimal digits, '-', ',', ';' and whitespace
AcceptedCharacters == (48..57) \cup {45, 44, 59, 32, 9, 12, 11, 13, 10}

\* positions of the characters of the text that are not accepted
Rejected == {k \in 1..Len(string) : string[k] \notin AcceptedCharacters}

(***************************************************************************)
(* C26: a character other than a decimal digit, '-', ',', ';' or           *)
(* whitespace (space, \t, \f, \v, \r, \n) makes the function return an     *)
(* empty Optional wherever it stands and whatever was parsed before it;    *)
(* for a text of accepted characters only an array is returned; the loop   *)
(* ends after at most size + 1 iterations.                                 *)
(***************************************************************************)
C26_UnrecognizedCharacter ==
    /\ [](parsed # "none" =>
            /\ index <= Len(string) + 1
            /\ parsed = "nothing" =>
                (Rejected # {} /\ index + 1 = Min(Rejected))
            /\ parsed = "array" =>
                (Rejected = {} /\ index = Len(string) + 1)
            /\ parsed = "running" =>
                /\ \A k \in Rejected : k > index
                /\ ENABLED NextParse)
    /\ [][parsed = "running" =>
            (index' = index + 1 /\ parsed' = "running")
                \/ (index' = index /\ parsed' \in {"array", "nothing"})]_vars

\* an unrecognized character after values were appended
C26_Witness ==
    /\ parsed = "nothing"
    /\ Len(out) > 1
    /\ index > 2

(***************************************************************************)
(* C30: every value v of the array parseNumberSequence builds satisfies    *)
(* min <= v < max, at every point of the parse and in the array returned,  *)
(* also after overflowed pieces, open-ended ranges and repeated '-'.       *)
(***************************************************************************)
C30_ValuesInBounds ==
    \A k \in 1..Len(out) :
        Value(minimum) <= out[k] /\ out[k] < Value(maximum)

\* an array returned for a text with an overflowed piece and a doubled '-'
C30_Witness ==
    /\ parsed = "array"
    /\ Len(out) > 1
    /\ Overflowed(string) # {}
    /\ \E k \in 1..(Len(string) - 1) :
        string[k] = 45 /\ string[k + 1] = 45

(***************************************************************************)
(* What split and join are to compute                                      *)
(***************************************************************************)
\* the strings strs with d between each two of them
RECURSIVE Interleave(_, _)
Interleave(strs, d) ==
    IF strs = <<>> THEN <<>>
    ELSE IF Len(strs) = 1 THEN strs[1]
    ELSE strs[1] \o d \o Interleave(Tail(strs), d)

\* the bytes of the strings given to join()
Contents == [k \in 1..Len(parts) |-> Content(parts[k])]

NonEmpty(s) == s # <<>>

\* the bytes the split in `op` took for delimiters
SplitDelimiters ==
    IF op = "splitOnAnyWithoutEmptyParts"
    THEN {characters[k] : k \in 1..Len(characters)}
    ELSE {character}

\* the maximal runs of bytes that are not delimiters, as views
Runs ==
    LET plain(p) == InBuffer(p) /\ haystack[p - data + 1] \notin SplitDelimiters
    IN  {v \in (data..end) \X (1..size) :
            /\ v[1] + v[2] <= end
            /\ \A p \in v[1]..(v[1] + v[2] - 1) : plain(p)
            /\ ~plain(v[1] - 1)
            /\ ~plain(v[1] + v[2])}

(***************************************************************************)
(* C27: in join() and joinWithoutEmptyParts() the assertion out == end     *)
(* holds after the copy loop, exactly totalSize bytes being written;       *)
(* join() gives the strings with exactly one delimiter between each two of *)
(* them, n - 1 in all, also around empty strings; joinWithoutEmptyParts()  *)
(* gives the non-empty strings with single delimiters between them and no  *)
(* leading, trailing or doubled delimiter.                                 *)
(***************************************************************************)
C27_Join ==
    /\ pc = "join" =>
        /\ assertOk
        /\ joined = Interleave(Contents, delimiter)
    /\ pc = "joinWithoutEmptyParts" =>
        /\ assertOk
        /\ joined = Interleave(SelectSeq(Contents, NonEmpty), delimiter)

\* three strings, the first and the last empty, joined without empty parts
C27_Witness ==
    /\ pc = "joinWithoutEmptyParts"
    /\ Len(parts) = 3
    /\ parts[1][2] = 0
    /\ parts[2][2] > 0
    /\ parts[3][2] = 0
    /\ Len(delimiter) = 2
    /\ joined = Content(parts[2])

(***************************************************************************)
(* C28: s.split(d) returns no parts when s is empty and otherwise exactly  *)
(* (occurrences of d in s) + 1 parts, in order, none of them containing d  *)
(* (a trailing d yields a final empty part); joining the parts with d      *)
(* gives s again.                                                          *)
(***************************************************************************)
C28_SplitJoinRoundTrip ==
    op = "split" =>
        /\ size = 0 => parts = <<>>
        /\ size > 0 =>
            /\ Len(parts) = Cardinality(MatchOffsets) + 1
            /\ parts[1][1] = data
            /\ parts[Len(parts)][1] + parts[Len(parts)][2] = end
        /\ \A k \in 1..Len(parts) :
            /\ \A j \in 1..parts[k][2] : Content(parts[k])[j] # character
            /\ k < Len(parts) =>
                parts[k + 1][1] = parts[k][1] + parts[k][2] + 1
        /\ (pc = "join" /\ delimiter = <<character>>) => joined = haystack

\* a text ending in the delimiter, split and joined again
C28_Witness ==
    /\ op = "split"
    /\ pc = "join"
    /\ delimiter = <<character>>
    /\ size = MaxHaystack
    /\ haystack[size] = character
    /\ parts[Len(parts)][2] = 0
    /\ joined = haystack

(***************************************************************************)
(* C29: splitWithoutEmptyParts(char) and splitOnAnyWithoutEmptyParts()     *)
(* return exactly the maximal runs of consecutive bytes that are not       *)
(* delimiters, from left to right: no part is empty, no part contains a    *)
(* delimiter, every byte that is not a delimiter lies in exactly one part, *)
(* and the loop ends for every input, also one that ends in a delimiter or *)
(* consists of delimiters only, which yields no parts.                     *)
(***************************************************************************)
C29_SplitWithoutEmptyParts ==
    op \in {"splitWithoutEmptyParts", "splitOnAnyWithoutEmptyParts"} =>
        /\ {parts[k] : k \in 1..Len(parts)} = Runs
        /\ \A k \in 1..(Len(parts) - 1) : parts[k][1] < parts[k + 1][1]
        /\ \A k \in 1..Len(parts) :
            /\ parts[k][2] > 0
            /\ \A j \in 1..parts[k][2] :
                Content(parts[k])[j] \notin SplitDelimiters
        /\ \A p \in data..(end - 1) :
            haystack[p - data + 1] \notin SplitDelimiters =>
                Cardinality({k \in 1..Len(parts) :
                    parts[k][1] <= p /\ p < parts[k][1] + parts[k][2]}) = 1

\* a text of delimiters only, split on either of two delimiters
C29_Witness ==
    /\ op = "splitOnAnyWithoutEmptyParts"
    /\ size = MaxHaystack
    /\ Len(characters) = 2
    /\ characters[1] # characters[2]
    /\ haystack[1] # haystack[size]
    /\ parts = <<>>

=============================================================================
